---- MODULE Spec2Model ----
(***************************************************************************)
(* Handlers of the Navitas partner-onboarding proxy:                       *)
(*   verifyWebsiteHandler (websiteVerifier.js),                            *)
(*   verifyEmailHandler   (emailVerifier.js) and                           *)
(*   forwardToSalesforce  (salesforceProxy.js) behind POST /onboarding.    *)
(*                                                                         *)
(* A JavaScript string is a sequence of one-character strings, so that     *)
(* replace / trim / toLowerCase / split / includes are computed.  Every    *)
(* `await` of a handler is a step boundary: an action runs the code from   *)
(* one await's completion up to the next await (or to the response).       *)
(***************************************************************************)
EXTENDS Integers, Sequences, FiniteSets, TLC

VARIABLES env, clock, web, mail, fwd, fixture

vars == <<env, clock, web, mail, fwd, fixture>>

----------------------------------------------------------------------------
(* Bounds of the model *)

\* Date.now() ticks per day (the code's clock has 86 400 000 per day).
UnitsPerDay == 2
\* How many times the clock advances in one behaviour.
MaxTicks == 1

Epoch == 2000 * UnitsPerDay

----------------------------------------------------------------------------
(* JavaScript values and string primitives *)

\* `undefined`: a field that is absent from the JSON body or payload.
Undefined == <<"undefined">>
Missing == -1

Falsy(s) == s = Undefined \/ s = <<>>

UPPER == <<"A", "B", "C", "D", "E", "F", "G", "H", "I", "J", "K", "L", "M", "N", "O", "P", "Q", "R", "S", "T", "U", "V", "W", "X", "Y", "Z">>
LOWER == <<"a", "b", "c", "d", "e", "f", "g", "h", "i", "j", "k", "l", "m", "n", "o", "p", "q", "r", "s", "t", "u", "v", "w", "x", "y", "z">>

LowerChar(c) ==
  IF \E i \in 1..Len(UPPER) : UPPER[i] = c
  THEN LOWER[CHOOSE i \in 1..Len(UPPER) : UPPER[i] = c]
  ELSE c

ToLowerCase(s) == [i \in 1..Len(s) |-> LowerChar(s[i])]

StartsWith(s, p) == Len(s) >= Len(p) /\ SubSeq(s, 1, Len(p)) = p

Includes(s, sub) ==
  \E i \in 1..(Len(s) - Len(sub) + 1) : SubSeq(s, i, i + Len(sub) - 1) = sub

\* Index of the first occurrence of character c in s, 0 when there is none.
IndexOf(s, c) ==
  IF \E i \in 1..Len(s) : s[i] = c
  THEN CHOOSE i \in 1..Len(s) : s[i] = c /\ \A j \in 1..(i - 1) : s[j] # c
  ELSE 0

Trim(s) ==
  LET keep == {i \in 1..Len(s) : s[i] # " "}
  IN  IF keep = {} THEN <<>>
      ELSE SubSeq(s, CHOOSE i \in keep : \A j \in keep : i <= j,
                     CHOOSE i \in keep : \A j \in keep : i >= j)

RECURSIVE Join(_, _)
Join(list, sep) ==
  IF list = <<>> THEN <<>>
  ELSE IF Len(list) = 1 THEN list[1]
  ELSE list[1] \o sep \o Join(Tail(list), sep)

Slice02(list) == SubSeq(list, 1, IF Len(list) < 2 THEN Len(list) ELSE 2)

P_HTTP == <<"h", "t", "t", "p", ":", "/", "/">>
P_HTTPS == <<"h", "t", "t", "p", "s", ":", "/", "/">>

----------------------------------------------------------------------------
(* Request bodies and collector answers the environment can produce *)

W_SCENARIO_A == <<"h", "t", "t", "p", "s", ":", "/", "/", "e", "x", "a", "m", "p", "l", "e", ".", "c", "o", "m">>
W_SCENARIO_B == <<"h", "t", "t", "p", ":", "/", "/", "n", "e", "w", "-", "s", "h", "o", "p", ".", "b", "i", "z">>
W_SCHEME_ONLY == <<"h", "t", "t", "p", ":", "/", "/">>
W_MIXED == <<"E", "x", "a", "m", "p", "l", "e", ".", "c", "o", "m", "/", "p", "a", "t", "h">>
W_UPPER_SCHEME == <<"H", "T", "T", "P", "S", ":", "/", "/", "a", ".", "c", "o">>

Websites ==
  {Undefined, <<>>, W_SCENARIO_A, W_SCENARIO_B, W_SCHEME_ONLY, W_MIXED, W_UPPER_SCHEME}

\* process.env: is IP2WHOIS_KEY / GSB_API_KEY set.
Envs == [whoisKey : BOOLEAN, gsbKey : BOOLEAN]

\* dns.lookup: the resolved address, or "" when the lookup rejects.
IP_EXAMPLE == <<"9", "3", ".", "1", "8", "4", ".", "2", "1", "6", ".", "3", "4">>
DnsAnswers == {<<>>, IP_EXAMPLE}

R_MARKMONITOR == <<"M", "a", "r", "k", "M", "o", "n", "i", "t", "o", "r", " ", "I", "n", "c", ".">>
R_GODADDY == <<"G", "o", "D", "a", "d", "d", "y", ".", "c", "o", "m", ",", " ", "L", "L", "C">>
R_CSC == <<"C", "S", "C", " ", "G", "l", "o", "b", "a", "l">>
N_CF1 == <<"a", "d", "a", ".", "n", "s", ".", "c", "l", "o", "u", "d", "f", "l", "a", "r", "e", ".", "c", "o", "m">>
N_CF2 == <<"b", "o", "b", ".", "n", "s", ".", "c", "l", "o", "u", "d", "f", "l", "a", "r", "e", ".", "c", "o", "m">>
N_PLAIN == <<"n", "s", "1", ".", "e", "x", "a", "m", "p", "l", "e", ".", "n", "e", "t">>
N_AWS == <<"n", "s", "-", "1", ".", "a", "w", "s", "d", "n", "s", ".", "o", "r", "g">>

\* Registration instants: at clock = Epoch the ages are 0, 10, 89, 89, 364
\* and 1000 whole days; one tick later they are 1, 10, 89, 90, 365 and 1000.
CreateDates ==
  {Epoch - 1 * UnitsPerDay + 1, Epoch - 10 * UnitsPerDay,
   Epoch - 89 * UnitsPerDay, Epoch - 90 * UnitsPerDay + 1,
   Epoch - 365 * UnitsPerDay + 1, Epoch - 1000 * UnitsPerDay}

\* The provider's own age figure for a domain registered at `created`.
ProviderAge(created, now) == (now - created) \div UnitsPerDay

\* (registrar.name, registrar_name) pairs of a payload.
RegistrarFields ==
  {<<Undefined, Undefined>>, <<R_MARKMONITOR, Undefined>>,
   <<R_GODADDY, Undefined>>, <<Undefined, R_CSC>>}

NameserverLists == {<<>>, <<N_CF1, N_CF2>>, <<N_PLAIN>>, <<N_PLAIN, N_PLAIN, N_AWS>>}

EmptyWhois ==
  [domain_age |-> Missing, create_date |-> Missing, registrar |-> Undefined,
   registrar_name |-> Undefined, nameservers |-> <<>>, domain_status |-> Undefined]

S_ACTIVE == <<"a", "c", "t", "i", "v", "e">>

\* IP2WHOIS payloads: the date may be masked; domain_age, when the provider
\* sends it, is the whole-day age at the time of the call.
AgeFields(now) ==
  {<<Missing, Missing>>} \cup
  {<<Missing, c>> : c \in CreateDates} \cup
  {<<ProviderAge(c, now), c>> : c \in CreateDates}

WhoisPayloads(now) ==
  {[domain_age |-> a[1], create_date |-> a[2], registrar |-> g[1],
    registrar_name |-> g[2], nameservers |-> n, domain_status |-> Undefined] :
     a \in AgeFields(now), g \in RegistrarFields, n \in NameserverLists}

\* An answer of the WHOIS call: ok = FALSE is a timeout, network error or
\* non-2xx status.
WhoisAnswers(now) ==
  {[ok |-> FALSE, data |-> EmptyWhois]} \cup
  {[ok |-> TRUE, data |-> p] : p \in WhoisPayloads(now)}

\* HTTPS probe: the final HTTP status, 0 when the request rejects.
ProbeAnswers == {0, 200}

\* Safe Browsing: "error" (rejects), "clean" (no matches), "flagged".
GsbAnswers == {"error", "clean", "flagged"}

----------------------------------------------------------------------------
(* verifyWebsiteHandler *)

Slots == {1, 2}

Note(text, arg, n1, n2) == [text |-> text, arg |-> arg, n1 |-> n1, n2 |-> n2]

Call(svc, arg) == [svc |-> svc, arg |-> arg]

NoResponse == [status |-> 0, body |-> [error |-> FALSE]]

IdleWeb ==
  [pc |-> "idle", website |-> Undefined, cleanDomain |-> <<>>, summary |-> <<>>,
   score |-> 0, resolvedIP |-> <<>>, whoisData |-> EmptyWhois, whoisOk |-> FALSE,
   nowRead |-> Missing, ageDays |-> 0, httpsOk |-> FALSE, probe |-> Missing,
   gsb |-> "none", calls |-> <<>>, res |-> NoResponse]

\* website.replace(/^https?:\/\//, '')
ReplaceScheme(s) ==
  IF StartsWith(s, P_HTTPS) THEN SubSeq(s, Len(P_HTTPS) + 1, Len(s))
  ELSE IF StartsWith(s, P_HTTP) THEN SubSeq(s, Len(P_HTTP) + 1, Len(s))
  ELSE s

\* .replace(/\/.*/, '')   (the inputs carry no line terminator)
ReplacePath(s) ==
  LET i == IndexOf(s, "/") IN IF i = 0 THEN s ELSE SubSeq(s, 1, i - 1)

CleanDomain(website) == ToLowerCase(Trim(ReplacePath(ReplaceScheme(website))))

\* res.status >= 200 && res.status < 400, false when the request rejects
checkHttpsAvailable(answer) == answer # 0 /\ answer >= 200 /\ answer < 400

Truthy(n) == n # Missing /\ n # 0

\* Mutant of AgeDays: Math.round in place of Math.floor.
AgeDaysRounded(whoisData, now) ==
  IF Truthy(whoisData.domain_age) THEN whoisData.domain_age
  ELSE IF whoisData.create_date # Missing
       THEN (2 * (now - whoisData.create_date) + UnitsPerDay) \div (2 * UnitsPerDay)
       ELSE 0

\* whoisData.domain_age || (create_date ? floor((now - created) / day) : 0)
AgeDays(whoisData, now) ==
  IF Truthy(whoisData.domain_age) THEN whoisData.domain_age
  ELSE IF whoisData.create_date # Missing
       THEN (now - whoisData.create_date) \div UnitsPerDay
       ELSE 0

\* (ageDays / 365).toFixed(1), in tenths of a year
AgeYears(ageDays) == (20 * ageDays + 365) \div (2 * 365)

\* create_date?.split('T')[0] || 'unknown': the calendar day of the date
SinceDay(whoisData) ==
  IF whoisData.create_date = Missing THEN Missing
  ELSE whoisData.create_date \div UnitsPerDay

AgeDelta(ageDays) ==
  IF ageDays > 0
  THEN IF ageDays < 90 THEN -15 ELSE IF ageDays < 365 THEN -5 ELSE 20
  ELSE 20

corporate == <<"c", "o", "r", "p", "o", "r", "a", "t", "e">>
markmonitor == <<"m", "a", "r", "k", "m", "o", "n", "i", "t", "o", "r">>
csc == <<"c", "s", "c">>
comlaude == <<"c", "o", "m", " ", "l", "a", "u", "d", "e">>
safenames == <<"s", "a", "f", "e", "n", "a", "m", "e", "s">>
cloudflare == <<"c", "l", "o", "u", "d", "f", "l", "a", "r", "e">>
google == <<"g", "o", "o", "g", "l", "e">>
aws == <<"a", "w", "s">>
nsone == <<"n", "s", "o", "n", "e">>

\* /corporate|markmonitor|csc|com laude|safenames/i.test(registrarName)
RegistrarMatches(registrarName) ==
  \E p \in {corporate, markmonitor, csc, comlaude, safenames} :
     Includes(ToLowerCase(registrarName), p)

\* whoisData.registrar?.name || whoisData.registrar_name
RegistrarName(whoisData) ==
  IF ~Falsy(whoisData.registrar) THEN whoisData.registrar
  ELSE whoisData.registrar_name

\* nameservers.join(' ').toLowerCase() includes one of the four providers
NameserversMatch(nameservers) ==
  LET nsText == ToLowerCase(Join(nameservers, <<" ">>))
  IN  \E p \in {cloudflare, google, aws, nsone} : Includes(nsText, p)

\* Mutant of Clamp: the lower bound is forgotten.
ClampNoFloor(score) == IF score > 100 THEN 100 ELSE score

Clamp(score) ==
  LET capped == IF score > 100 THEN 100 ELSE score
  IN  IF capped < 0 THEN 0 ELSE capped

StatusOf(score) ==
  IF score >= 80 THEN "Likely Legitimate"
  ELSE IF score >= 50 THEN "Needs Review"
  ELSE "Potentially Fraudulent"

RiskLevelOf(status) ==
  IF status = "Likely Legitimate" THEN "Low"
  ELSE IF status = "Needs Review" THEN "Medium"
  ELSE "High"

\* === 4) Finalize score === and the 200 response
Finalize(q, now) ==
  LET score == Clamp(q.score)
      status == StatusOf(score)
  IN  [q EXCEPT !.pc = "done", !.score = score,
         !.res = [status |-> 200,
                  body |-> [domain |-> q.cleanDomain, score |-> score,
                            status |-> status, summary |-> q.summary,
                            riskLevel |-> RiskLevelOf(status),
                            timestamp |-> now]]]

\* The Safe Browsing call has completed (or was rejected).
GsbReturn(q, answer) ==
  IF answer = "error" THEN [q EXCEPT !.gsb = answer]
  ELSE IF answer = "flagged"
  THEN [q EXCEPT !.gsb = answer, !.score = @ - 60,
          !.summary = Append(@, Note("Flagged by Google Safe Browsing for malware/phishing", <<>>, 0, 0))]
  ELSE [q EXCEPT !.gsb = answer, !.score = @ + 10,
          !.summary = Append(@, Note("No threats found (Google Safe Browsing)", <<>>, 0, 0))]

\* === 3) Google Safe Browsing Check ===: issue the call or note the missing key
GsbCheck(q, now) ==
  IF env.gsbKey
  THEN [q EXCEPT !.pc = "gsb", !.calls = Append(@, Call("gsb", q.website))]
  ELSE Finalize([q EXCEPT !.summary = Append(@, Note("Google Safe Browsing key not configured", <<>>, 0, 0))], now)

HttpsScore(q, now) ==
  IF q.httpsOk
  THEN GsbCheck([q EXCEPT !.score = @ + 10,
                   !.summary = Append(@, Note("Valid HTTPS detected", <<>>, 0, 0))], now)
  ELSE GsbCheck([q EXCEPT !.score = @ - 10,
                   !.summary = Append(@, Note("No HTTPS detected", <<>>, 0, 0))], now)

\* === 2) HTTPS Check ===: trust an explicit https:// or issue the probe
HttpsCheck(q, now) ==
  IF StartsWith(ToLowerCase(q.website), P_HTTPS)
  THEN HttpsScore([q EXCEPT !.httpsOk = TRUE], now)
  ELSE [q EXCEPT !.pc = "https", !.calls = Append(@, Call("https", q.cleanDomain))]

AgeStep(q, now) ==
  LET ageDays == AgeDays(q.whoisData, now)
  IN  [q EXCEPT !.nowRead = now, !.ageDays = ageDays,
         !.score = @ + AgeDelta(ageDays),
         !.summary = Append(@,
            IF ageDays > 0
            THEN Note("Domain active for", <<>>, AgeYears(ageDays), SinceDay(q.whoisData))
            ELSE Note("Domain age unavailable", <<>>, 0, 0))]

RegistrarStep(q) ==
  LET registrarName == RegistrarName(q.whoisData)
  IN  IF Falsy(registrarName) THEN q
      ELSE [q EXCEPT !.summary = Append(@, Note("Registrar: ", registrarName, 0, 0)),
              !.score = IF RegistrarMatches(registrarName) THEN @ + 5 ELSE @]

NameserverStep(q) ==
  LET ns == q.whoisData.nameservers
  IN  IF Len(ns) = 0 THEN q
      ELSE [q EXCEPT !.summary = Append(@, Note("Nameservers: ", Join(Slice02(ns), <<",", " ">>), 0, 0)),
              !.score = IF NameserversMatch(ns) THEN @ + 3 ELSE @]

\* Domain age, registrar, nameservers, then on to the HTTPS check
WhoisScore(q, now) == HttpsCheck(NameserverStep(RegistrarStep(AgeStep(q, now))), now)

\* The WHOIS call has completed: resp.data || {}, or {} when it rejected.
WhoisReturn(q, answer) ==
  [q EXCEPT !.whoisOk = answer.ok,
            !.whoisData = IF answer.ok THEN answer.data ELSE EmptyWhois]

\* The outer catch of the handler: 500 with the error's message
WebInternalError(q, message) ==
  [q EXCEPT !.pc = "done",
            !.res = [status |-> 500, body |-> [error |-> TRUE, message |-> message]]]

\* Mutant of WhoisStep: the try/catch around the WHOIS call is missing, so a
\* rejected call reaches the outer catch.
WhoisStepUncaught(q, answer, now) ==
  IF answer.ok THEN WhoisScore(WhoisReturn(q, answer), now)
  ELSE WebInternalError(q, "timeout of 10000ms exceeded")

\* The WHOIS call has completed; scoring goes on to the HTTPS check.
WhoisStep(q, answer, now) == WhoisScore(WhoisReturn(q, answer), now)

\* Mutant of WhoisCheck: the WHOIS call is skipped when the DNS lookup
\* failed.
WhoisCheckNeedsDns(q, now) ==
  IF env.whoisKey /\ q.resolvedIP # <<>>
  THEN [q EXCEPT !.pc = "whois", !.calls = Append(@, Call("whois", q.cleanDomain))]
  ELSE WhoisScore(q, now)

\* === 1) IP2WHOIS Check ===: issue the call when the key is configured
WhoisCheck(q, now) ==
  IF env.whoisKey
  THEN [q EXCEPT !.pc = "whois", !.calls = Append(@, Call("whois", q.cleanDomain))]
  ELSE WhoisScore(q, now)

\* The DNS lookup has completed (or was rejected).
DnsReturn(q, answer) ==
  IF answer = <<>> THEN q
  ELSE [q EXCEPT !.resolvedIP = answer,
          !.summary = Append(@, Note("Resolves to IP ", answer, 0, 0))]

\* Request received: validation, normalisation, the DNS lookup is issued.
Receive(website) ==
  IF Falsy(website)
  THEN [IdleWeb EXCEPT !.pc = "done", !.website = website,
          !.res = [status |-> 400,
                   body |-> [error |-> TRUE, message |-> "Website URL is required."]]]
  ELSE LET cleanDomain == CleanDomain(website)
       IN  [IdleWeb EXCEPT !.pc = "dns", !.website = website,
              !.cleanDomain = cleanDomain, !.score = 50,
              !.calls = <<Call("dns", cleanDomain)>>]

WebReceive(r, website) ==
  /\ web[r].pc = "idle"
  /\ web' = [web EXCEPT ![r] = Receive(website)]
  /\ UNCHANGED <<env, clock, mail, fwd, fixture>>

WebDns(r, answer) ==
  /\ web[r].pc = "dns"
  /\ web' = [web EXCEPT ![r] = WhoisCheck(DnsReturn(web[r], answer), clock)]
  /\ UNCHANGED <<env, clock, mail, fwd, fixture>>

WebWhois(r, answer) ==
  /\ web[r].pc = "whois"
  /\ web' = [web EXCEPT ![r] = WhoisStep(web[r], answer, clock)]
  /\ UNCHANGED <<env, clock, mail, fwd, fixture>>

WebHttps(r, answer) ==
  /\ web[r].pc = "https"
  /\ web' = [web EXCEPT ![r] =
               HttpsScore([web[r] EXCEPT !.probe = answer,
                             !.httpsOk = checkHttpsAvailable(answer)], clock)]
  /\ UNCHANGED <<env, clock, mail, fwd, fixture>>

WebGsb(r, answer) ==
  /\ web[r].pc = "gsb"
  /\ web' = [web EXCEPT ![r] = Finalize(GsbReturn(web[r], answer), clock)]
  /\ UNCHANGED <<env, clock, mail, fwd, fixture>>

\* The response has been sent; the handler's locals are gone.
WebClose(r) ==
  /\ web[r].pc = "done"
  /\ web' = [web EXCEPT ![r] = IdleWeb]
  /\ UNCHANGED <<env, clock, mail, fwd, fixture>>

\* Date.now() advances.
Tick ==
  /\ clock < Epoch + MaxTicks
  /\ clock' = clock + 1
  /\ UNCHANGED <<env, web, mail, fwd, fixture>>

----------------------------------------------------------------------------
(* verifyEmailHandler *)

E_BIGCORP == <<"u", "s", "e", "r", "@", "b", "i", "g", "c", "o", "r", "p", ".", "c", "o", "m">>
E_UPPER == <<"U", "s", "e", "r", "@", "B", "i", "g", "C", "o", "r", "p", ".", "C", "O", "M">>
E_NOAT == <<"u", "s", "e", "r">>
E_NORHS == <<"u", "s", "e", "r", "@">>
E_TWOAT == <<"a", "@", "b", ".", "c", "o", "@", "c">>

Emails == {Undefined, <<>>, E_NOAT, E_NORHS, E_BIGCORP, E_UPPER, E_TWOAT}

L_HIGH == <<"h", "i", "g", "h">>
L_MEDIUM == <<"m", "e", "d", "i", "u", "m">>
L_LOW == <<"l", "o", "w">>
L_MALICIOUS == <<"m", "a", "l", "i", "c", "i", "o", "u", "s">>
L_VERYLOW == <<"v", "e", "r", "y", " ", "l", "o", "w">>
L_NONE == <<"n", "o", "n", "e">>
L_UPPER == <<"H", "I", "G", "H">>
L_UNKNOWN == <<"u", "n", "k", "n", "o", "w", "n">>
S_NA == <<"N", "/", "A">>
S_UNKNOWN_REGISTRAR == <<"U", "n", "k", "n", "o", "w", "n">>

ReputationLabels ==
  {Undefined, L_HIGH, L_MEDIUM, L_LOW, L_MALICIOUS, L_VERYLOW, L_NONE, L_UPPER}

\* A JSON boolean field that may be absent.
JsBool == {"true", "false", "undefined"}

IsTrue(b) == b = "true"

\* emailRepData.details, absent or with its provider flags.
NoDetails ==
  [present |-> FALSE, free_provider |-> "undefined", disposable |-> "undefined",
   malicious_activity |-> "undefined"]

DetailsValues ==
  {NoDetails} \cup
  {[present |-> TRUE, free_provider |-> f, disposable |-> d,
    malicious_activity |-> "false"] :
     f \in {"true", "false"}, d \in {"true", "false"}}

NoRepData ==
  [reputation |-> Undefined, suspicious |-> "undefined", risk |-> Missing,
   details |-> NoDetails]

EmailRepPayloads ==
  {[reputation |-> l, suspicious |-> s, risk |-> k, details |-> d] :
     l \in ReputationLabels, s \in JsBool, k \in {Missing, 7}, d \in DetailsValues}

\* The reputation call: fetch rejects ("reject"), answers with a non-2xx
\* status ("status"), answers 2xx with a body that is not JSON ("badjson"),
\* or answers 2xx with a JSON payload ("json").
EmailRepAnswers ==
  {[outcome |-> "reject", status |-> 0, text |-> "", data |-> NoRepData],
   [outcome |-> "status", status |-> 429, text |-> "rate limit exceeded", data |-> NoRepData],
   [outcome |-> "status", status |-> 401, text |-> "invalid api key", data |-> NoRepData],
   [outcome |-> "badjson", status |-> 200, text |-> "", data |-> NoRepData]} \cup
  {[outcome |-> "json", status |-> 200, text |-> "", data |-> p] : p \in EmailRepPayloads}

MailWhoisPayloads ==
  {[EmptyWhois EXCEPT !.create_date = c, !.registrar = g, !.domain_status = s] :
     c \in {Missing, Epoch - 10 * UnitsPerDay, Epoch - 365 * UnitsPerDay + 1},
     g \in {Undefined, R_GODADDY}, s \in {Undefined, S_ACTIVE}}

\* The WHOIS call of the email path, with the same four outcomes.
MailWhoisAnswers ==
  {[outcome |-> o, data |-> EmptyWhois] : o \in {"reject", "status", "badjson"}} \cup
  {[outcome |-> "json", data |-> p] : p \in MailWhoisPayloads}

NoRepAnswer == [outcome |-> "none", status |-> 0, text |-> ""]

IdleMail ==
  [pc |-> "idle", email |-> Undefined, parsedDomain |-> Undefined,
   rep |-> NoRepAnswer, emailRepData |-> NoRepData, whois |-> "none",
   whoisData |-> EmptyWhois, calls |-> <<>>, res |-> NoResponse]

\* email.split('@')[1]
SplitAt1(email) ==
  LET i == IndexOf(email, "@")
  IN  IF i = 0 THEN Undefined
      ELSE LET rest == SubSeq(email, i + 1, Len(email))
               j == IndexOf(rest, "@")
           IN  IF j = 0 THEN rest ELSE SubSeq(rest, 1, j - 1)

\* value || fallback
OrElse(value, fallback) == IF Falsy(value) THEN fallback ELSE value

\* === 4. Reverse EmailRep's reputation -> risk ===
RiskOfReputation(reputation) ==
  LET label == ToLowerCase(OrElse(reputation, <<>>))
  IN  IF label = L_HIGH THEN "low"
      ELSE IF label = L_MEDIUM THEN "medium"
      ELSE IF label \in {L_LOW, L_MALICIOUS, L_VERYLOW} THEN "high"
      ELSE "unknown"

\* !details?.free_provider && !details?.disposable
IsBusinessDomain(emailRepData) ==
  ~IsTrue(emailRepData.details.free_provider) /\ ~IsTrue(emailRepData.details.disposable)

\* Mutant of BusinessCorrection: the downgrade is missing.
BusinessCorrectionMissing(isBusinessDomain, riskLevel) == riskLevel

\* === 5. Business domain correction ===
BusinessCorrection(isBusinessDomain, riskLevel) ==
  IF isBusinessDomain /\ riskLevel = "high" THEN "medium" ELSE riskLevel

\* Mutant of IsValid: the business-domain override is missing.
IsValidNoOverride(isBusinessDomain, suspicious) == ~IsTrue(suspicious)

\* === 6. Determine validity ===
IsValid(isBusinessDomain, suspicious) ==
  IF isBusinessDomain /\ IsTrue(suspicious) THEN TRUE ELSE ~IsTrue(suspicious)

\* === 7. Calculate domain age (in days) ===
DomainAgeDays(whoisData, now) ==
  IF whoisData.create_date # Missing
  THEN (now - whoisData.create_date) \div UnitsPerDay
  ELSE Missing

\* `${flag || false}`
FlagText(b) == IF IsTrue(b) THEN "true" ELSE "false"

\* Steps 4 to 10: scoring and the 200 response
MailResult(m, now) ==
  LET d == m.emailRepData
      isBusinessDomain == IsBusinessDomain(d)
      riskLevel == BusinessCorrection(isBusinessDomain, RiskOfReputation(d.reputation))
      isValid == IsValid(isBusinessDomain, d.suspicious)
      domainAgeDays == DomainAgeDays(m.whoisData, now)
      registrar == OrElse(m.whoisData.registrar, S_UNKNOWN_REGISTRAR)
      domainStatus == OrElse(m.whoisData.domain_status, S_NA)
  IN  [email |-> m.email,
       domain |-> m.parsedDomain,
       isValid |-> isValid,
       status |-> OrElse(d.reputation, L_UNKNOWN),
       riskLevel |-> riskLevel,
       spamScore |-> IF Truthy(d.risk) THEN d.risk ELSE 0,
       domainAgeDays |-> domainAgeDays,
       domainStatus |-> domainStatus,
       summary |-> <<Note("Reputation: ", d.reputation, 0, 0),
                     Note("Mapped Risk Level: ", <<riskLevel>>, 0, 0),
                     Note("Suspicious: ", <<d.suspicious>>, 0, 0),
                     Note("Days Since Domain Created: ", <<>>, domainAgeDays, 0),
                     Note("Domain Status: ", domainStatus, 0, 0),
                     Note("Registrar: ", registrar, 0, 0),
                     Note("Malicious Activity: ",
                          <<IF IsTrue(d.details.malicious_activity) THEN "true" ELSE "none">>, 0, 0),
                     Note("Disposable: ", <<FlagText(d.details.disposable)>>, 0, 0),
                     Note("Free Provider: ", <<FlagText(d.details.free_provider)>>, 0, 0)>>]

\* The outer catch: 500 with the error's message and stack
InternalError(m, message) ==
  [m EXCEPT !.pc = "done",
            !.res = [status |-> 500, body |-> [error |-> message, stack |-> "stack"]]]

\* === 3. Query IP2WHOIS === has completed; whoisData stays {} unless the
\* answer is a 2xx JSON body
MailWhoisReturn(m, answer) ==
  [m EXCEPT !.whois = answer.outcome,
            !.whoisData = IF answer.outcome = "json" THEN answer.data ELSE EmptyWhois]

MailRespond(m, now) ==
  [m EXCEPT !.pc = "done", !.res = [status |-> 200, body |-> MailResult(m, now)]]

\* === 2. Query EmailRep === has completed
RepSeen(answer) ==
  [outcome |-> answer.outcome, status |-> answer.status, text |-> answer.text]

\* Mutant of MailRepReturn: the provider's status is written to the response
\* but the handler does not stop there and goes on to the WHOIS lookup.
MailRepReturnFallsThrough(m, answer) ==
  IF answer.outcome \in {"reject", "badjson"}
  THEN InternalError([m EXCEPT !.rep = RepSeen(answer)], "fetch failed")
  ELSE [m EXCEPT !.pc = "whois", !.rep = RepSeen(answer),
          !.emailRepData = answer.data,
          !.res = IF answer.outcome = "status"
                  THEN [status |-> answer.status,
                        body |-> [error |-> <<"EmailRep API error: ", answer.text>>]]
                  ELSE @,
          !.calls = Append(@, Call("whois", m.parsedDomain))]

MailRepReturn(m, answer) ==
  IF answer.outcome = "reject"
  THEN InternalError([m EXCEPT !.rep = RepSeen(answer)], "fetch failed")
  ELSE IF answer.outcome = "status"
  THEN [m EXCEPT !.pc = "done", !.rep = RepSeen(answer),
          !.res = [status |-> answer.status,
                   body |-> [error |-> <<"EmailRep API error: ", answer.text>>]]]
  ELSE IF answer.outcome = "badjson"
  THEN InternalError([m EXCEPT !.rep = RepSeen(answer)], "invalid json")
  ELSE [m EXCEPT !.pc = "whois", !.rep = RepSeen(answer),
          !.emailRepData = answer.data,
          !.calls = Append(@, Call("whois", m.parsedDomain))]

\* Mutant of MailBegin: the parsed domain is not checked before the
\* reputation call.
MailBeginNoFormatCheck(email) ==
  IF Falsy(email)
  THEN [IdleMail EXCEPT !.pc = "done", !.email = email,
          !.res = [status |-> 400, body |-> [error |-> "Missing email parameter"]]]
  ELSE [IdleMail EXCEPT !.pc = "rep", !.email = email,
          !.parsedDomain = SplitAt1(email),
          !.calls = <<Call("emailrep", email)>>]

\* Request received: validation, === 1. Parse domain ===, EmailRep is queried
MailBegin(email) ==
  IF Falsy(email)
  THEN [IdleMail EXCEPT !.pc = "done", !.email = email,
          !.res = [status |-> 400, body |-> [error |-> "Missing email parameter"]]]
  ELSE LET parsedDomain == SplitAt1(email)
       IN  IF Falsy(parsedDomain)
           THEN [IdleMail EXCEPT !.pc = "done", !.email = email,
                   !.res = [status |-> 400, body |-> [error |-> "Invalid email format"]]]
           ELSE [IdleMail EXCEPT !.pc = "rep", !.email = email,
                   !.parsedDomain = parsedDomain,
                   !.calls = <<Call("emailrep", email)>>]

MailReceive(email) ==
  /\ mail.pc = "idle"
  /\ mail' = MailBegin(email)
  /\ UNCHANGED <<env, clock, web, fwd, fixture>>

MailRep(answer) ==
  /\ mail.pc = "rep"
  /\ mail' = MailRepReturn(mail, answer)
  /\ UNCHANGED <<env, clock, web, fwd, fixture>>

MailWhois(answer) ==
  /\ mail.pc = "whois"
  /\ mail' = MailRespond(MailWhoisReturn(mail, answer), clock)
  /\ UNCHANGED <<env, clock, web, fwd, fixture>>

MailClose ==
  /\ mail.pc = "done"
  /\ mail' = IdleMail
  /\ UNCHANGED <<env, clock, web, fwd, fixture>>

----------------------------------------------------------------------------
(* POST /onboarding and forwardToSalesforce *)

\* The Salesforce target and TARGET_SF_URL value of the README.
README_TARGET == <<"h", "t", "t", "p", "s", ":", "/", "/", "n", "a", "v", "i", "t", "a", "s", "c", "r", "e", "d", "i", "t", ".", "m", "y", ".", "s", "a", "l", "e", "s", "f", "o", "r", "c", "e", "-", "s", "i", "t", "e", "s", ".", "c", "o", "m", "/", "o", "n", "b", "o", "a", "r", "d", "i", "n", "g", "/", "s", "e", "r", "v", "i", "c", "e", "s", "/", "a", "p", "e", "x", "r", "e", "s", "t", "/", "n", "e", "w", "p", "a", "r", "t", "n", "e", "r">>
\* The same endpoint without its last segment.
APEXREST_BASE == <<"h", "t", "t", "p", "s", ":", "/", "/", "n", "a", "v", "i", "t", "a", "s", "c", "r", "e", "d", "i", "t", ".", "m", "y", ".", "s", "a", "l", "e", "s", "f", "o", "r", "c", "e", "-", "s", "i", "t", "e", "s", ".", "c", "o", "m", "/", "o", "n", "b", "o", "a", "r", "d", "i", "n", "g", "/", "s", "e", "r", "v", "i", "c", "e", "s", "/", "a", "p", "e", "x", "r", "e", "s", "t">>
U_ONBOARDING == <<"/", "o", "n", "b", "o", "a", "r", "d", "i", "n", "g">>
U_ONBOARDING_QUERY == <<"/", "o", "n", "b", "o", "a", "r", "d", "i", "n", "g", "?", "r", "e", "f", "=", "1">>
U_NEWPARTNER == <<"/", "n", "e", "w", "p", "a", "r", "t", "n", "e", "r">>
U_VERIFYWEBSITE == <<"/", "v", "e", "r", "i", "f", "y", "W", "e", "b", "s", "i", "t", "e">>

\* req.originalUrl of a request that express routes to POST /onboarding.
OriginalUrls == {U_ONBOARDING, U_ONBOARDING_QUERY}

\* process.env.TARGET_SF_URL: unset, the README's value, that value with a
\* trailing slash, or the Apex REST base.
TargetSfUrls == {Undefined, README_TARGET, README_TARGET \o <<"/">>, APEXREST_BASE}

\* The axios call: a 2xx answer ("ok"), a non-2xx answer ("status", axios
\* rejects with error.response), or no answer at all ("reject").
SalesforceAnswers ==
  {[outcome |-> "ok", status |-> 200, data |-> "partner created"],
   [outcome |-> "ok", status |-> 201, data |-> "partner created"],
   [outcome |-> "status", status |-> 400, data |-> "apex error"],
   [outcome |-> "reject", status |-> 0, data |-> ""]}

NoSalesforceAnswer == [outcome |-> "none", status |-> 0, data |-> ""]

IdleFwd ==
  [pc |-> "idle", originalUrl |-> Undefined, url |-> Undefined,
   baseUrl |-> Undefined, targetUrl |-> Undefined, sf |-> NoSalesforceAnswer,
   calls |-> <<>>, res |-> NoResponse]

\* baseUrl.replace(/\/+$/, '')
StripTrailingSlashes(s) ==
  LET keep == {i \in 1..Len(s) : s[i] # "/"}
  IN  IF keep = {} THEN <<>>
      ELSE SubSeq(s, 1, CHOOSE i \in keep : \A j \in keep : i >= j)

\* sfSubPath.replace(/^\/+/, '')
StripLeadingSlashes(s) ==
  LET keep == {i \in 1..Len(s) : s[i] # "/"}
  IN  IF keep = {} THEN <<>>
      ELSE SubSeq(s, CHOOSE i \in keep : \A j \in keep : i <= j, Len(s))

\* routeMap[path]
routeMap(path) ==
  IF path = U_ONBOARDING THEN U_NEWPARTNER
  ELSE IF path = U_VERIFYWEBSITE THEN U_VERIFYWEBSITE
  ELSE Undefined

\* `${base}/${tail}` with sfSubPath = routeMap[path] || path
TargetUrl(baseUrl, path) ==
  StripTrailingSlashes(baseUrl) \o <<"/">>
    \o StripLeadingSlashes(OrElse(routeMap(path), path))

\* app.post('/onboarding'): req.url = '/newpartner', then forwardToSalesforce
\* up to its axios call (path = req.originalUrl || req.url)
ForwardBegin(originalUrl, baseUrl) ==
  LET url == U_NEWPARTNER
      path == OrElse(originalUrl, url)
  IN  IF Falsy(baseUrl)
      THEN [IdleFwd EXCEPT !.pc = "done", !.originalUrl = originalUrl, !.url = url,
              !.baseUrl = baseUrl,
              !.res = [status |-> 500,
                       body |-> [error |-> TRUE,
                                 message |-> "Missing TARGET_SF_URL environment variable."]]]
      ELSE [IdleFwd EXCEPT !.pc = "sf", !.originalUrl = originalUrl, !.url = url,
              !.baseUrl = baseUrl, !.targetUrl = TargetUrl(baseUrl, path),
              !.calls = <<Call("salesforce", TargetUrl(baseUrl, path))>>]

\* The axios call has completed: relay, or the catch block
ForwardReturn(f, answer) ==
  IF answer.outcome = "ok"
  THEN [f EXCEPT !.pc = "done", !.sf = answer,
          !.res = [status |-> answer.status, body |-> answer.data]]
  ELSE [f EXCEPT !.pc = "done", !.sf = answer,
          !.res = [status |-> IF answer.outcome = "status" THEN answer.status ELSE 500,
                   body |-> [error |-> TRUE, message |-> "request failed",
                             details |-> answer.data]]]

OnboardingReceive(originalUrl, baseUrl) ==
  /\ fwd.pc = "idle"
  /\ fwd' = ForwardBegin(originalUrl, baseUrl)
  /\ UNCHANGED <<env, clock, web, mail, fixture>>

OnboardingReturn(answer) ==
  /\ fwd.pc = "sf"
  /\ fwd' = ForwardReturn(fwd, answer)
  /\ UNCHANGED <<env, clock, web, mail, fixture>>

OnboardingClose ==
  /\ fwd.pc = "done"
  /\ fwd' = IdleFwd
  /\ UNCHANGED <<env, clock, web, mail, fixture>>

----------------------------------------------------------------------------
NoFixture == [on |-> FALSE]

Init ==
  /\ env \in Envs
  /\ clock = Epoch
  /\ web = [r \in Slots |-> IdleWeb]
  /\ mail = IdleMail
  /\ fwd = IdleFwd
  /\ fixture = NoFixture

\* The client of Spec has one request outstanding at a time.
Next ==
  \/ mail.pc = "idle" /\ fwd.pc = "idle" /\ \E w \in Websites : WebReceive(1, w)
  \/ \E a \in DnsAnswers : WebDns(1, a)
  \/ \E a \in WhoisAnswers(clock) : WebWhois(1, a)
  \/ \E a \in ProbeAnswers : WebHttps(1, a)
  \/ \E a \in GsbAnswers : WebGsb(1, a)
  \/ WebClose(1)
  \/ web[1].pc = "idle" /\ fwd.pc = "idle" /\ \E e \in Emails : MailReceive(e)
  \/ \E a \in EmailRepAnswers : MailRep(a)
  \/ \E a \in MailWhoisAnswers : MailWhois(a)
  \/ MailClose
  \/ web[1].pc = "idle" /\ mail.pc = "idle"
       /\ \E u \in OriginalUrls, b \in TargetSfUrls : OnboardingReceive(u, b)
  \/ \E a \in SalesforceAnswers : OnboardingReturn(a)
  \/ OnboardingClose
  \/ Tick

Spec == Init /\ [][Next]_vars

----------------------------------------------------------------------------
(* Two /verifyWebsite requests in flight at once, answered by mocked        *)
(* collectors: both requests carry the same website and get the same DNS,   *)
(* probe and Safe Browsing answers; fixture.whois[r] is the WHOIS answer    *)
(* given to request r.                                                       *)

PairWebsites == {W_SCENARIO_A, W_SCENARIO_B}

PairAgeFields ==
  {<<Missing, Missing>>} \cup
  {<<Missing, c>> : c \in CreateDates} \cup
  {<<ProviderAge(Epoch - 1 * UnitsPerDay + 1, Epoch), Epoch - 1 * UnitsPerDay + 1>>}

PairOtherFields ==
  {<<Undefined, <<>>>>, <<R_MARKMONITOR, <<N_CF1, N_CF2>>>>}

PairWhois(a, o) ==
  [ok |-> TRUE,
   data |-> [EmptyWhois EXCEPT !.domain_age = a[1], !.create_date = a[2],
                               !.registrar = o[1], !.nameservers = o[2]]]

Fixtures ==
  {[on |-> TRUE, website |-> w, dns |-> IP_EXAMPLE,
    whois |-> <<PairWhois(a1, o), PairWhois(a2, o)>>, probe |-> p, gsb |-> g] :
     w \in PairWebsites, a1 \in PairAgeFields, a2 \in PairAgeFields,
     o \in PairOtherFields, p \in ProbeAnswers, g \in GsbAnswers}

InitPair ==
  /\ env \in Envs
  /\ clock = Epoch
  /\ web = [r \in Slots |-> IdleWeb]
  /\ mail = IdleMail
  /\ fwd = IdleFwd
  /\ fixture \in Fixtures

NextPair ==
  \/ \E r \in Slots : WebReceive(r, fixture.website)
  \/ \E r \in Slots : WebDns(r, fixture.dns)
  \/ \E r \in Slots : WebWhois(r, fixture.whois[r])
  \/ \E r \in Slots : WebHttps(r, fixture.probe)
  \/ \E r \in Slots : WebGsb(r, fixture.gsb)
  \/ Tick

SpecPair == InitPair /\ [][NextPair]_vars

----------------------------------------------------------------------------
(* Two evaluations one after the other, the service restarted with another
   environment in between, against the same mocked collectors *)

WhoisFailure == [ok |-> FALSE, data |-> EmptyWhois]

RestartAgeFields ==
  {<<Missing, Missing>>, <<Missing, Epoch - 10 * UnitsPerDay>>,
   <<Missing, Epoch - 1000 * UnitsPerDay>>}

\* The WHOIS provider is down for both runs, or answers both the same.
RestartFixtures ==
  {[on |-> TRUE, website |-> w, dns |-> d, whois |-> <<a, a>>, probe |-> p, gsb |-> g] :
     w \in PairWebsites, d \in DnsAnswers,
     a \in {WhoisFailure} \cup
           {PairWhois(f, o) : f \in RestartAgeFields, o \in PairOtherFields},
     p \in ProbeAnswers, g \in GsbAnswers}

InitRestart ==
  /\ env \in Envs
  /\ clock = Epoch
  /\ web = [r \in Slots |-> IdleWeb]
  /\ mail = IdleMail
  /\ fwd = IdleFwd
  /\ fixture \in RestartFixtures

\* The process is started again with other keys in process.env; no request
\* is in flight.
Restart(e) ==
  /\ \A r \in Slots : web[r].pc \in {"idle", "done"}
  /\ e # env
  /\ env' = e
  /\ UNCHANGED <<clock, web, mail, fwd, fixture>>

NextRestart ==
  \/ WebReceive(1, fixture.website)
  \/ web[1].pc = "done" /\ WebReceive(2, fixture.website)
  \/ \E r \in Slots : WebDns(r, fixture.dns)
  \/ \E r \in Slots : WebWhois(r, fixture.whois[r])
  \/ \E r \in Slots : WebHttps(r, fixture.probe)
  \/ \E r \in Slots : WebGsb(r, fixture.gsb)
  \/ \E e \in Envs : Restart(e)
  \/ Tick

SpecRestart == InitRestart /\ [][NextRestart]_vars

----------------------------------------------------------------------------
(* Properties *)

Done200(r) == web[r].pc = "done" /\ web[r].res.status = 200

\* The domain age a WHOIS answer reports to an evaluation that reads the
\* clock at `now`; Missing when the answer carries neither figure.
ReportedAge(whoisData, now) ==
  IF whoisData.domain_age # Missing THEN whoisData.domain_age
  ELSE IF whoisData.create_date # Missing
       THEN (now - whoisData.create_date) \div UnitsPerDay
       ELSE Missing

\* C1: every 200 response of verifyWebsiteHandler carries an integer score in
\* 0..100, and status and riskLevel are the labels of that score: >= 80
\* Likely Legitimate / Low, 50..79 Needs Review / Medium, < 50 Potentially
\* Fraudulent / High.
C1_ScoreBoundedAndLabelled ==
  \A r \in Slots : Done200(r) =>
    LET b == web[r].res.body
    IN  /\ b.score \in 0..100
        /\ <<b.status, b.riskLevel>> \in
             {<<"Likely Legitimate", "Low">>, <<"Needs Review", "Medium">>,
              <<"Potentially Fraudulent", "High">>}
        /\ (b.score >= 80) <=> (b.status = "Likely Legitimate")
        /\ (b.score >= 50 /\ b.score < 80) <=> (b.status = "Needs Review")
        /\ (b.score < 50) <=> (b.status = "Potentially Fraudulent")

\* C1 witness: Scenario B, a 200 response whose running total (-35) was below
\* zero and is returned as 0 / Potentially Fraudulent / High.
C1_Witness ==
  /\ Done200(1) /\ web[1].website = W_SCENARIO_B
  /\ web[1].gsb = "flagged" /\ ~web[1].httpsOk /\ web[1].ageDays = 10
  /\ web[1].res.body.score = 0

\* The deltas of the scoring table, read off the collector results.
TableAgeDelta(age) ==
  IF age = Missing THEN 20
  ELSE IF age < 90 THEN -15
  ELSE IF age < 365 THEN -5
  ELSE 20

TableSecure(q) ==
  \/ StartsWith(ToLowerCase(q.website), P_HTTPS)
  \/ (q.probe # Missing /\ q.probe >= 200 /\ q.probe < 400)

TableOtherDeltas(q) ==
    (IF ~Falsy(RegistrarName(q.whoisData)) /\ RegistrarMatches(RegistrarName(q.whoisData))
     THEN 5 ELSE 0)
  + (IF NameserversMatch(q.whoisData.nameservers) THEN 3 ELSE 0)
  + (IF TableSecure(q) THEN 10 ELSE -10)
  + (IF q.gsb = "flagged" THEN -60 ELSE IF q.gsb = "clean" THEN 10 ELSE 0)

TableScore(q) ==
  LET raw == 50 + TableAgeDelta(ReportedAge(q.whoisData, q.nowRead)) + TableOtherDeltas(q)
  IN  IF raw > 100 THEN 100 ELSE IF raw < 0 THEN 0 ELSE raw

\* C2: the score of every 200 response equals clamp(0, 100, 50 + ageDelta +
\* registrarDelta + nameserverDelta + httpsDelta + threatDelta) with the
\* table's deltas, where an age below 90 days gives -15.
ScenarioA(q) ==
  /\ q.website = W_SCENARIO_A /\ ReportedAge(q.whoisData, q.nowRead) = 1000
  /\ q.whoisData.registrar = R_MARKMONITOR /\ q.whoisData.nameservers = <<N_CF1, N_CF2>>
  /\ q.gsb = "clean"

ScenarioB(q) ==
  /\ q.website = W_SCENARIO_B /\ ReportedAge(q.whoisData, q.nowRead) = 10
  /\ Falsy(RegistrarName(q.whoisData)) /\ q.whoisData.nameservers = <<>>
  /\ q.probe = 0 /\ q.gsb = "flagged"

C2_ScoreIsTableSum ==
  \A r \in Slots : Done200(r) =>
    /\ web[r].res.body.score = TableScore(web[r])
    /\ ScenarioA(web[r]) => web[r].res.body.score = 98
    /\ ScenarioB(web[r]) => web[r].res.body.score = 0

\* The table sum does hold of every evaluation whose reported age is not 0 days,
\* and both scenarios are reached.
C2_TableSumUnlessAgeZero ==
  \A r \in Slots : (Done200(r) /\ ReportedAge(web[r].whoisData, web[r].nowRead) # 0) =>
    /\ web[r].res.body.score = TableScore(web[r])
    /\ ScenarioA(web[r]) => web[r].res.body.score = 98
    /\ ScenarioB(web[r]) => web[r].res.body.score = 0

C2_NotScenarioA == ~(Done200(1) /\ ScenarioA(web[1]))

C2_NotScenarioB == ~(Done200(1) /\ ScenarioB(web[1]))

\* C3: of two evaluations that agree on registrar, nameservers, HTTPS and
\* threat list, the one whose domain age lies in the later category
\* (< 90 days, 90..364 days, >= 365 days, unavailable) never scores lower.
AgeCategory(age) ==
  IF age = Missing THEN 4
  ELSE IF age < 90 THEN 1
  ELSE IF age < 365 THEN 2
  ELSE 3

C3_AgeMonotone ==
  \A r1 \in Slots, r2 \in Slots :
    (/\ Done200(r1) /\ Done200(r2)
     /\ AgeCategory(ReportedAge(web[r1].whoisData, web[r1].nowRead))
          < AgeCategory(ReportedAge(web[r2].whoisData, web[r2].nowRead)))
    => web[r1].res.body.score <= web[r2].res.body.score

MailDone200 == mail.pc = "done" /\ mail.res.status = 200

\* The business flag of the claim, read off the reputation payload.
Business(d) == d.details.free_provider # "true" /\ d.details.disposable # "true"

\* The reputation label, compared without regard to letter case.
Label(d) == ToLowerCase(IF d.reputation = Undefined THEN <<>> ELSE d.reputation)

\* C4: every 200 response of verifyEmailHandler has riskLevel in {low, medium,
\* high, unknown} (the handler's spelling of Low, Medium, High, Unknown), and
\* it is: reputation high -> low; medium -> medium; low, malicious or "very
\* low" -> medium for a business domain and high otherwise; anything else ->
\* unknown.  A business domain never gets high.
C4_RiskLevelMapping ==
  MailDone200 =>
    LET d == mail.emailRepData
        risk == mail.res.body.riskLevel
    IN  /\ risk \in {"low", "medium", "high", "unknown"}
        /\ Label(d) = L_HIGH => risk = "low"
        /\ Label(d) = L_MEDIUM => risk = "medium"
        /\ Label(d) \in {L_LOW, L_MALICIOUS, L_VERYLOW} =>
             risk = (IF Business(d) THEN "medium" ELSE "high")
        /\ Label(d) \notin {L_HIGH, L_MEDIUM, L_LOW, L_MALICIOUS, L_VERYLOW} =>
             risk = "unknown"
        /\ Business(d) => risk # "high"

\* C4 witness: Scenario D, a business domain with reputation "low" answered
\* with riskLevel medium.
C4_Witness ==
  /\ MailDone200
  /\ mail.emailRepData.reputation = L_LOW /\ Business(mail.emailRepData)
  /\ mail.emailRepData.details.present
  /\ mail.res.body.riskLevel = "medium"

\* C5: in every 200 response of verifyEmailHandler, isValid is FALSE exactly
\* when the provider marks the address suspicious and the domain is not a
\* business domain.
C5_IsValid ==
  MailDone200 =>
    LET d == mail.emailRepData
    IN  mail.res.body.isValid = ~(d.suspicious = "true" /\ ~Business(d))

\* C5 witness: Scenario D, a suspicious business address answered as valid.
C5_Witness ==
  /\ MailDone200
  /\ mail.emailRepData.suspicious = "true" /\ Business(mail.emailRepData)
  /\ mail.emailRepData.reputation = L_LOW
  /\ mail.res.body.isValid

\* The three invalid-input responses.
WebsiteRequired == [status |-> 400, body |-> [error |-> TRUE, message |-> "Website URL is required."]]
MissingEmail == [status |-> 400, body |-> [error |-> "Missing email parameter"]]
InvalidEmail == [status |-> 400, body |-> [error |-> "Invalid email format"]]

\* An email string with no '@', or with nothing after it.
NoDomainPart(email) == Falsy(SplitAt1(email))

WebRejected(r) ==
  Falsy(web[r].website) =>
    web[r].pc = "done" /\ web[r].res = WebsiteRequired /\ web[r].calls = <<>>

\* C6 as stated: a website that is absent or empty gets 400 'Website URL is
\* required.'; an email field that is missing gets 400 'Missing email
\* parameter'; an email field that is present but has no '@' (or nothing after
\* it) gets 400 'Invalid email format'; no collector is called.
C6_InvalidInputRejected_Original ==
  /\ \A r \in Slots : web[r].pc # "idle" => WebRejected(r)
  /\ mail.pc # "idle" =>
       /\ mail.email = Undefined =>
            mail.pc = "done" /\ mail.res = MissingEmail /\ mail.calls = <<>>
       /\ (mail.email # Undefined /\ NoDomainPart(mail.email)) =>
            mail.pc = "done" /\ mail.res = InvalidEmail /\ mail.calls = <<>>

\* C6 amended: as stated, except that an email field that is missing or is the
\* empty string gets 'Missing email parameter', and a non-empty email with no
\* '@' (or nothing after it) gets 'Invalid email format'.
C6_InvalidInputRejected ==
  /\ \A r \in Slots : web[r].pc # "idle" => WebRejected(r)
  /\ mail.pc # "idle" =>
       /\ (mail.email = Undefined \/ mail.email = <<>>) =>
            mail.pc = "done" /\ mail.res = MissingEmail /\ mail.calls = <<>>
       /\ (mail.email # Undefined /\ mail.email # <<>> /\ NoDomainPart(mail.email)) =>
            mail.pc = "done" /\ mail.res = InvalidEmail /\ mail.calls = <<>>

\* C6 witness: an email with nothing after its '@' has been rejected.
C6_Witness ==
  mail.pc = "done" /\ mail.email = E_NORHS /\ mail.res = InvalidEmail /\ mail.calls = <<>>

WhoisCalled(calls) == \E i \in 1..Len(calls) : calls[i].svc = "whois"

\* C7: when the reputation provider answers with a non-success status the
\* response is that status with {error: 'EmailRep API error: <body>'} and
\* nothing else, and no WHOIS call is issued; a WHOIS call is only ever issued
\* after a successful reputation response.
C7_ReputationFirst ==
  /\ mail.rep.outcome = "status" =>
       /\ mail.pc = "done"
       /\ mail.res = [status |-> mail.rep.status,
                      body |-> [error |-> <<"EmailRep API error: ", mail.rep.text>>]]
       /\ ~WhoisCalled(mail.calls)
  /\ WhoisCalled(mail.calls) => mail.rep.outcome = "json"

\* C7 witness: the provider answered 429 and the handler relayed it.
C7_Witness ==
  mail.pc = "done" /\ mail.rep.outcome = "status" /\ mail.res.status = 429

\* C8: a /verifyWebsite request with a non-empty website ends in 200 with
\* score, status, riskLevel and summary whatever fails among DNS, WHOIS, the
\* HTTPS probe and the threat list (or whichever key is missing); a
\* /verifyEmail request whose reputation call succeeded ends in 200, and when
\* its WHOIS call failed domainAgeDays is absent and domainStatus is 'N/A'.
C8_OptionalFailuresAbsorbed ==
  /\ \A r \in Slots : (web[r].pc = "done" /\ ~Falsy(web[r].website)) =>
       /\ web[r].res.status = 200
       /\ DOMAIN web[r].res.body =
            {"domain", "score", "status", "summary", "riskLevel", "timestamp"}
       /\ web[r].res.body.score \in Int
       /\ Len(web[r].res.body.summary) >= 2
  /\ (mail.pc = "done" /\ mail.rep.outcome = "json") =>
       /\ mail.res.status = 200
       /\ mail.whois \in {"reject", "status", "badjson"} =>
            /\ mail.res.body.domainAgeDays = Missing
            /\ mail.res.body.domainStatus = S_NA

\* C8 witness: every collector of a website request failed and it was
\* answered 200.
C8_Witness ==
  /\ web[1].pc = "done" /\ web[1].res.status = 200
  /\ env.whoisKey /\ env.gsbKey
  /\ web[1].resolvedIP = <<>> /\ ~web[1].whoisOk /\ web[1].probe = 0
  /\ web[1].gsb = "error"
  /\ Len(web[1].calls) = 4

\* What two responses must share: everything but the timestamp.
SameVerdict(b1, b2) ==
  /\ b1.domain = b2.domain /\ b1.score = b2.score /\ b1.status = b2.status
  /\ b1.riskLevel = b2.riskLevel /\ b1.summary = b2.summary

\* C9 as stated: two runs on the same website with the same configuration and
\* the same collector responses, at any two points in time and under any
\* interleaving, return the same domain, score, status, riskLevel and summary.
C9_Deterministic_Original ==
  (Done200(1) /\ Done200(2) /\ fixture.whois[1] = fixture.whois[2]) =>
    SameVerdict(web[1].res.body, web[2].res.body)

\* Whole days between the WHOIS creation date and the instant a run reads
\* the clock.
DaysSince(created, now) == (now - created) \div UnitsPerDay

\* The two runs compute the domain age from the same figure: the payload's
\* non-zero domain_age, or the same number of whole days since create_date.
SameAgeBasis ==
  LET p == fixture.whois[1].data
  IN  \/ ~env.whoisKey
      \/ (p.domain_age # Missing /\ p.domain_age # 0)
      \/ p.create_date = Missing
      \/ DaysSince(p.create_date, web[1].nowRead) = DaysSince(p.create_date, web[2].nowRead)

\* C9 amended: as stated, provided that whenever the WHOIS payload carries a
\* create_date and no non-zero domain_age, both runs read the clock the same
\* whole number of days after that date.
C9_Deterministic ==
  (Done200(1) /\ Done200(2) /\ fixture.whois[1] = fixture.whois[2] /\ SameAgeBasis) =>
    SameVerdict(web[1].res.body, web[2].res.body)

\* C9 witness: two interleaved runs on the same WHOIS payload (creation date
\* only) that read the clock at different instants of the same day count and
\* returned the same verdict.
C9_Witness ==
  /\ Done200(1) /\ Done200(2) /\ env.whoisKey
  /\ fixture.whois[1] = fixture.whois[2]
  /\ fixture.whois[1].data.domain_age = Missing
  /\ fixture.whois[1].data.create_date # Missing
  /\ web[1].nowRead # web[2].nowRead
  /\ web[1].ageDays = web[2].ageDays /\ web[1].ageDays = 89
  /\ SameVerdict(web[1].res.body, web[2].res.body)

NoSchemeNoPath(d) ==
  /\ ~Includes(d, <<"/">>)
  /\ ~StartsWith(d, <<"h", "t", "t", "p", ":">>)
  /\ ~StartsWith(d, <<"h", "t", "t", "p", "s", ":">>)

Normalized(d) == d # <<>> /\ d # Undefined /\ d = ToLowerCase(d) /\ NoSchemeNoPath(d)

\* C10: every request answered with 200 has a non-empty, lower-cased domain
\* without scheme or path in its result, and an input whose normalized domain
\* would be empty is rejected with 400 and reaches no collector.
C10_DomainNormalized ==
  /\ \A r \in Slots : Done200(r) => Normalized(web[r].res.body.domain)
  /\ MailDone200 => Normalized(mail.res.body.domain)
  /\ \A r \in Slots :
       (web[r].pc # "idle" /\ (Falsy(web[r].website) \/ CleanDomain(web[r].website) = <<>>)) =>
          web[r].pc = "done" /\ web[r].res.status = 400 /\ web[r].calls = <<>>

\* The website part of C10 alone, and its email part alone.
C10_WebsiteDomainNonEmpty ==
  \A r \in Slots : Done200(r) => web[r].res.body.domain # <<>>

C10_EmailDomainLowerCased ==
  MailDone200 => mail.res.body.domain = ToLowerCase(mail.res.body.domain)

\* C11: with TARGET_SF_URL set to the README's value, a POST to /onboarding
\* issues exactly one upstream request, to exactly the README's Salesforce
\* target (.../apexrest/newpartner), and relays the upstream status and body.
C11_ForwardsToDocumentedTarget ==
  (fwd.pc # "idle" /\ fwd.baseUrl = README_TARGET) =>
    /\ Len(fwd.calls) = 1
    /\ fwd.calls[1] = Call("salesforce", README_TARGET)
    /\ (fwd.pc = "done" /\ fwd.sf.outcome = "ok") =>
         fwd.res = [status |-> fwd.sf.status, body |-> fwd.sf.data]

\* What the code does reach the documented target with: TARGET_SF_URL set to
\* the Apex REST base and the path exactly /onboarding.
C11_BaseReachesTarget ==
  (fwd.pc # "idle" /\ fwd.baseUrl = APEXREST_BASE /\ fwd.originalUrl = U_ONBOARDING) =>
    fwd.calls = <<Call("salesforce", README_TARGET)>>

\* With the README's value the request goes to .../newpartner/newpartner.
C11_DuplicatedSegment ==
  (fwd.pc # "idle" /\ fwd.baseUrl = README_TARGET /\ fwd.originalUrl = U_ONBOARDING) =>
    fwd.calls = <<Call("salesforce", README_TARGET \o U_NEWPARTNER)>>

Attempted(calls, svc) == \E i \in 1..Len(calls) : calls[i].svc = svc

HasNote(summary, text) == \E i \in 1..Len(summary) : summary[i].text = text

\* Run 1 had the WHOIS key and the call failed, run 2 had no WHOIS key; the
\* other signals of the two runs are equal.
WhoisOutageVsNoKey ==
  /\ Done200(1) /\ Done200(2)
  /\ Attempted(web[1].calls, "whois") /\ ~web[1].whoisOk
  /\ ~Attempted(web[2].calls, "whois")
  /\ web[1].resolvedIP = web[2].resolvedIP
  /\ web[1].httpsOk = web[2].httpsOk
  /\ web[1].gsb = web[2].gsb

\* Run 1 had the threat-list key and the call failed, run 2 had no
\* threat-list key; the other signals of the two runs are equal.
GsbOutageVsNoKey ==
  /\ Done200(1) /\ Done200(2)
  /\ Attempted(web[1].calls, "gsb") /\ web[1].gsb = "error"
  /\ ~Attempted(web[2].calls, "gsb")
  /\ web[1].resolvedIP = web[2].resolvedIP
  /\ web[1].httpsOk = web[2].httpsOk
  /\ web[1].whoisOk = web[2].whoisOk
  /\ web[1].whoisData = web[2].whoisData
  /\ web[1].ageDays = web[2].ageDays

\* C12 (WHOIS half): a run without the WHOIS key returns the same score,
\* status, riskLevel and summary as a run whose WHOIS call failed, and the
\* only WHOIS note of either summary is 'Domain age unavailable'.
C12_WhoisNoKeyAsOutage ==
  WhoisOutageVsNoKey =>
    /\ SameVerdict(web[1].res.body, web[2].res.body)
    /\ \A r \in Slots :
         /\ HasNote(web[r].res.body.summary, "Domain age unavailable")
         /\ ~HasNote(web[r].res.body.summary, "Registrar: ")
         /\ ~HasNote(web[r].res.body.summary, "Nameservers: ")
         /\ ~HasNote(web[r].res.body.summary, "Domain active for")

\* C12 (threat-list half, score only): a failed threat-list call and a
\* missing threat-list key both contribute a delta of 0.
C12_GsbDeltaZero ==
  GsbOutageVsNoKey =>
    /\ web[1].res.body.score = web[2].res.body.score
    /\ web[1].res.body.status = web[2].res.body.status
    /\ web[1].res.body.riskLevel = web[2].res.body.riskLevel

\* The summaries of the two runs differ by exactly the last entry of the run
\* without the key.
C12_GsbNoteOnlyWithoutKey ==
  GsbOutageVsNoKey =>
    /\ web[2].res.body.summary =
         Append(web[1].res.body.summary,
                Note("Google Safe Browsing key not configured", <<>>, 0, 0))
    /\ ~HasNote(web[1].res.body.summary, "Google Safe Browsing key not configured")

\* C12: in verifyWebsiteHandler a missing provider credential is treated as
\* an outage of that provider: for the WHOIS provider and for the threat-list
\* provider, a run without the key returns the same score, status, riskLevel
\* and summary as a run with the key whose call failed, the other signals
\* being equal; in both runs the threat-list delta is 0 and the summary
\* carries 'Google Safe Browsing key not configured', and WHOIS absence adds
\* no note beyond 'Domain age unavailable'.
C12_MissingCredentialAsOutage ==
  /\ C12_WhoisNoKeyAsOutage
  /\ GsbOutageVsNoKey =>
       /\ SameVerdict(web[1].res.body, web[2].res.body)
       /\ \A r \in Slots :
            HasNote(web[r].res.body.summary, "Google Safe Browsing key not configured")

CallCount(calls, svc) == Cardinality({i \in 1..Len(calls) : calls[i].svc = svc})

\* How often each collector is to be called for a website string under the
\* configuration, the https:// test being `declaresHttps`.
Planned(svc, declaresHttps) ==
  IF svc = "dns" THEN 1
  ELSE IF svc = "whois" THEN (IF env.whoisKey THEN 1 ELSE 0)
  ELSE IF svc = "https" THEN (IF declaresHttps THEN 0 ELSE 1)
  ELSE (IF env.gsbKey THEN 1 ELSE 0)

Collectors == {"dns", "whois", "https", "gsb"}

\* A request that passed the input check: no collector is called more often
\* than planned, a response exists only when the handler is done, and then
\* every collector has been called exactly as often as planned; a skipped
\* probe counts as secure.
AttemptsAsPlanned(q, declaresHttps) ==
  (q.pc # "idle" /\ ~Falsy(q.website)) =>
    /\ \A s \in Collectors : CallCount(q.calls, s) <= Planned(s, declaresHttps)
    /\ \A i \in 1..Len(q.calls) : q.calls[i].svc \in Collectors
    /\ q.res # NoResponse => q.pc = "done"
    /\ q.pc = "done" =>
         /\ q.res.status = 200
         /\ \A s \in Collectors : CallCount(q.calls, s) = Planned(s, declaresHttps)
         /\ declaresHttps =>
              /\ q.httpsOk
              /\ HasNote(q.res.body.summary, "Valid HTTPS detected")

\* C13 as stated: within one /verifyWebsite request the DNS lookup is always
\* attempted, the WHOIS call iff the WHOIS key is configured, the HTTPS probe
\* iff the submitted website does not start with https:// (then it is skipped
\* and HTTPS counts as secure), the threat-list call iff its key is
\* configured, whatever the other collectors returned; each attempted
\* collector is called exactly once and the response is sent only after all
\* of them have completed or failed.
C13_AttemptsIndependent_Original ==
  \A r \in Slots : AttemptsAsPlanned(web[r], StartsWith(web[r].website, P_HTTPS))

\* C13 amended: as stated, the https:// test being made on the lower-cased
\* website string (HTTPS://... skips the probe as well).
C13_AttemptsIndependent ==
  \A r \in Slots :
    AttemptsAsPlanned(web[r], StartsWith(ToLowerCase(web[r].website), P_HTTPS))

\* C13 witness: a request for HTTPS://a.co with the WHOIS key and without the
\* threat-list key whose DNS lookup and WHOIS call both failed: the WHOIS call
\* was still made, the probe and the threat-list call were not, and the
\* response was sent after the two calls.
C13_Witness ==
  /\ Done200(1) /\ web[1].website = W_UPPER_SCHEME
  /\ env.whoisKey /\ ~env.gsbKey
  /\ web[1].resolvedIP = <<>> /\ ~web[1].whoisOk
  /\ web[1].calls = <<Call("dns", web[1].cleanDomain), Call("whois", web[1].cleanDomain)>>
  /\ web[1].httpsOk
====
